---- MODULE Spec2Model ----
(***************************************************************************)
(* The password game: requirement generation, password validation and the  *)
(* round loop of its two front-ends, the terminal program (pw.c) and the   *)
(* browser script.  Characters are ASCII codes, strings are sequences of   *)
(* codes, C ints used as flags are 0/1.                                    *)
(***************************************************************************)
EXTENDS Integers, Sequences, FiniteSets, TLC

(* ------------------------------------------------------------------ *)
(* Program constants                                                   *)
(* ------------------------------------------------------------------ *)
INITIAL_TIME == 60
TIME_DECREMENT == 5
MIN_TIME == 10
MAX_PASSWORD_LEN == 100
BASE_MIN_LEN == 6

(* ------------------------------------------------------------------ *)
(* Bounds of the model                                                 *)
(* ------------------------------------------------------------------ *)
\* longest password handed to the validators in SpecValidate
MaxPwLen == 3
\* largest round handed to the generators in SpecGenerate
MaxRound == 23
\* largest value returned by rand() / number of Math.random() steps
MaxRand == 48
\* largest max_len handed to get_hidden_input in SpecInput
MaxBuf == 3

(* ------------------------------------------------------------------ *)
(* Characters                                                          *)
(* ------------------------------------------------------------------ *)
\* 'A', 'a', '2', '!', ' ' and the control character SOH
Chars == {65, 97, 50, 33, 32, 1}

\* <ctype.h> in the "C" locale (the program never calls setlocale); no byte
\* above 127 is in any of these classes
isupper(c) == c \in 65..90
islower(c) == c \in 97..122
isdigit(c) == c \in 48..57
isprint(c) == c \in 32..126
\* the printable characters that are neither alphanumeric nor the space
ispunct(c) == c \in 33..47 \/ c \in 58..64 \/ c \in 91..96 \/ c \in 123..126

\* the regular expressions of the browser script, on ASCII
reUpper(c) == c \in 65..90
reLower(c) == c \in 97..122
reDigit(c) == c \in 48..57
reSpace(c) == c \in 9..13 \/ c = 32
\* !/[a-zA-Z0-9\s]/.test(char)
isSymbol(c) == ~(reLower(c) \/ reUpper(c) \/ reDigit(c) \/ reSpace(c))

(* ------------------------------------------------------------------ *)
(* Requirements and verdicts                                           *)
(* ------------------------------------------------------------------ *)
\* memset(reqs, 0, sizeof(PasswordRequirements)) / the reset object literal
ZeroReqs ==
  [min_length |-> 0, min_uppercase |-> 0, min_lowercase |-> 0,
   min_digits |-> 0, min_symbols |-> 0,
   req_start_upper_end_symbol |-> 0, req_no_consecutive_chars |-> 0,
   req_palindrome |-> 0, req_digit_sum |-> 0, digit_sum_target |-> 0]

\* a validator's outcome: the value returned and the failure lines it emitted
Pass == [ret |-> 1, out |-> <<>>]
Fail(reason, detail) == [ret |-> 0, out |-> <<[reason |-> reason, detail |-> detail]>>]

(* ------------------------------------------------------------------ *)
(* validate_password (pw.c)                                            *)
(* ------------------------------------------------------------------ *)
NoCounts == [upper |-> 0, lower |-> 0, digit |-> 0, symbol |-> 0, sum |-> 0]

\* one iteration of the counting loop: the if / else-if chain
CountStep(c, k) ==
  IF isupper(c) THEN [k EXCEPT !.upper = @ + 1]
  ELSE IF islower(c) THEN [k EXCEPT !.lower = @ + 1]
  ELSE IF isdigit(c) THEN [k EXCEPT !.digit = @ + 1, !.sum = @ + (c - 48)]
  ELSE IF ispunct(c) THEN [k EXCEPT !.symbol = @ + 1]
  ELSE k

\* for (int i = 0; password[i] != '\0'; i++), i counted from 1 here
RECURSIVE CountLoop(_, _, _)
CountLoop(password, i, k) ==
  IF i > Len(password) THEN k
  ELSE CountLoop(password, i + 1, CountStep(password[i], k))

\* for (i = 0; i < len - 1; i++) if (password[i] == password[i+1]): the
\* C index of the first equal pair, or -1 when the loop runs to its end
RECURSIVE FirstConsecutive(_, _)
FirstConsecutive(password, i) ==
  IF ~(i < Len(password) - 1) THEN -1
  ELSE IF password[i + 1] = password[i + 2] THEN i
  ELSE FirstConsecutive(password, i + 1)

\* for (i = 0; i < len / 2; i++) if (password[i] != password[len-1-i])
RECURSIVE PalindromeLoop(_, _)
PalindromeLoop(password, i) ==
  IF ~(i < Len(password) \div 2) THEN 1
  ELSE IF password[i + 1] # password[Len(password) - i] THEN 0
  ELSE PalindromeLoop(password, i + 1)

\* the unsatisfiable-configuration test placed ahead of the comparison
DigitSumCheckImpossibleFirst(current_digit_sum, reqs) ==
  IF reqs.req_digit_sum # 0
  THEN IF reqs.min_digits = 0 /\ reqs.digit_sum_target # 0
       THEN Fail("digit_sum_impossible", <<>>)
       ELSE IF current_digit_sum # reqs.digit_sum_target
       THEN Fail("digit_sum", <<current_digit_sum, reqs.digit_sum_target>>)
       ELSE Pass
  ELSE Pass

\* 4. Digit Sum Check: if (reqs->req_digit_sum) { ... }
DigitSumCheck(current_digit_sum, reqs) ==
  IF reqs.req_digit_sum # 0
  THEN IF current_digit_sum # reqs.digit_sum_target
       THEN Fail("digit_sum", <<current_digit_sum, reqs.digit_sum_target>>)
       ELSE IF reqs.min_digits = 0 /\ reqs.digit_sum_target # 0
       THEN Fail("digit_sum_impossible", <<>>)
       ELSE Pass
  ELSE Pass

validate_password(password, reqs) ==
  LET len == Len(password)
      k   == CountLoop(password, 1, NoCounts)
      dup == FirstConsecutive(password, 0)
  IN
  IF len < reqs.min_length THEN Fail("too_short", <<len, reqs.min_length>>)
  ELSE IF k.upper < reqs.min_uppercase
    THEN Fail("uppercase", <<k.upper, reqs.min_uppercase>>)
  ELSE IF k.lower < reqs.min_lowercase
    THEN Fail("lowercase", <<k.lower, reqs.min_lowercase>>)
  ELSE IF k.digit < reqs.min_digits
    THEN Fail("digits", <<k.digit, reqs.min_digits>>)
  ELSE IF k.symbol < reqs.min_symbols
    THEN Fail("symbols", <<k.symbol, reqs.min_symbols>>)
  ELSE IF reqs.req_start_upper_end_symbol # 0 /\ len = 0
    THEN Fail("start_end_empty", <<>>)
  ELSE IF reqs.req_start_upper_end_symbol # 0 /\ ~isupper(password[1])
    THEN Fail("start_upper", <<>>)
  ELSE IF reqs.req_start_upper_end_symbol # 0 /\ ~ispunct(password[len])
    THEN Fail("end_symbol", <<>>)
  ELSE IF reqs.req_no_consecutive_chars # 0 /\ dup # -1
    THEN Fail("consecutive", <<password[dup + 1], password[dup + 2], dup>>)
  ELSE IF reqs.req_palindrome # 0 /\ PalindromeLoop(password, 0) = 0
    THEN Fail("palindrome", <<>>)
  ELSE DigitSumCheck(k.sum, reqs)

\* the test for the empty password left out
start_end_reads_unguarded(password, reqs) ==
  LET len == Len(password)
  IN  IF reqs.req_start_upper_end_symbol = 0 THEN {}
      ELSE IF ~isupper(IF len = 0 THEN 0 ELSE password[1]) THEN {0}
      ELSE {0, len - 1}

\* validate_password, 1. Starts with Uppercase, Ends with Symbol: the C
\* indices of password that the block reads
start_end_reads(password, reqs) ==
  LET len == Len(password)
  IN  IF reqs.req_start_upper_end_symbol = 0 THEN {}
      ELSE IF len = 0 THEN {}
      ELSE IF ~isupper(password[1]) THEN {0}
      ELSE {0, len - 1}

(* ------------------------------------------------------------------ *)
(* validatePassword (browser script); the script's true / false flags  *)
(* are 1 / 0 here, its result true is Pass and a returned string Fail  *)
(* ------------------------------------------------------------------ *)
\* one iteration of the counting loop of the script
countStepJs(char, k) ==
  IF reUpper(char) THEN [k EXCEPT !.upper = @ + 1]
  ELSE IF reLower(char) THEN [k EXCEPT !.lower = @ + 1]
  ELSE IF reDigit(char) THEN [k EXCEPT !.digit = @ + 1, !.sum = @ + (char - 48)]
  ELSE IF isSymbol(char) THEN [k EXCEPT !.symbol = @ + 1]
  ELSE k

RECURSIVE countLoopJs(_, _, _)
countLoopJs(password, i, k) ==
  IF i > Len(password) THEN k
  ELSE countLoopJs(password, i + 1, countStepJs(password[i], k))

\* for (let i = 0; i < len - 1; i++) if (password[i] === password[i + 1]):
\* the index of the first equal pair, or -1
RECURSIVE firstConsecutiveJs(_, _)
firstConsecutiveJs(password, i) ==
  IF ~(i < Len(password) - 1) THEN -1
  ELSE IF password[i + 1] = password[i + 2] THEN i
  ELSE firstConsecutiveJs(password, i + 1)

\* password.split('').reverse().join('')
reversedPassword(password) ==
  [i \in 1..Len(password) |-> password[Len(password) + 1 - i]]

\* 4. Digit Sum Check: if (reqs.reqDigitSum) { ... }
digitSumCheckJs(currentDigitSum, reqs) ==
  IF reqs.req_digit_sum # 0
  THEN IF currentDigitSum # reqs.digit_sum_target
       THEN Fail("digit_sum", <<currentDigitSum, reqs.digit_sum_target>>)
       ELSE IF reqs.min_digits = 0 /\ reqs.digit_sum_target # 0
       THEN Fail("digit_sum_impossible", <<>>)
       ELSE Pass
  ELSE Pass

validatePassword(password, reqs) ==
  LET len == Len(password)
      k   == countLoopJs(password, 1, NoCounts)
      dup == firstConsecutiveJs(password, 0)
  IN
  IF len < reqs.min_length THEN Fail("too_short", <<len, reqs.min_length>>)
  ELSE IF k.upper < reqs.min_uppercase
    THEN Fail("uppercase", <<k.upper, reqs.min_uppercase>>)
  ELSE IF k.lower < reqs.min_lowercase
    THEN Fail("lowercase", <<k.lower, reqs.min_lowercase>>)
  ELSE IF k.digit < reqs.min_digits
    THEN Fail("digits", <<k.digit, reqs.min_digits>>)
  ELSE IF k.symbol < reqs.min_symbols
    THEN Fail("symbols", <<k.symbol, reqs.min_symbols>>)
  ELSE IF reqs.req_start_upper_end_symbol # 0 /\ len = 0
    THEN Fail("start_end_empty", <<>>)
  ELSE IF reqs.req_start_upper_end_symbol # 0 /\ ~reUpper(password[1])
    THEN Fail("start_upper", <<>>)
  ELSE IF reqs.req_start_upper_end_symbol # 0 /\ ~isSymbol(password[len])
    THEN Fail("end_symbol", <<>>)
  ELSE IF reqs.req_no_consecutive_chars # 0 /\ dup # -1
    THEN Fail("consecutive", <<password[dup + 1], password[dup + 2], dup>>)
  ELSE IF reqs.req_palindrome # 0 /\ password # reversedPassword(password)
    THEN Fail("palindrome", <<>>)
  ELSE digitSumCheckJs(k.sum, reqs)

\* validatePassword, the same block: the indices that /^[A-Z]/.test(password)
\* and password[len - 1] read
startEndReadsJs(password, reqs) ==
  LET len == Len(password)
  IN  IF reqs.req_start_upper_end_symbol = 0 THEN {}
      ELSE IF len = 0 THEN {}
      ELSE IF ~reUpper(password[1]) THEN {0}
      ELSE {0, len - 1}

(* ------------------------------------------------------------------ *)
(* generate_requirements (pw.c)                                        *)
(* ------------------------------------------------------------------ *)
\* reqs->min_uppercase + reqs->min_lowercase + reqs->min_digits + reqs->min_symbols
min_char_sum(reqs) ==
  reqs.min_uppercase + reqs.min_lowercase + reqs.min_digits + reqs.min_symbols

\* the length left as the formula of the round gives it
ClampLengthSkipped(reqs) == reqs

\* if (reqs->min_length < min_char_sum) reqs->min_length = min_char_sum;
ClampLength(reqs) ==
  IF reqs.min_length < min_char_sum(reqs)
  THEN [reqs EXCEPT !.min_length = min_char_sum(reqs)]
  ELSE reqs

\* the digit minimum growing like the letter minimums (round / 2 for round / 3)
BasicRequirementsDigitsByHalf(round) ==
  [ZeroReqs EXCEPT
     !.min_length    = BASE_MIN_LEN + round + (round \div 2),
     !.min_uppercase = 1 + (round \div 2),
     !.min_lowercase = 1 + (round \div 2),
     !.min_digits    = 1 + (round \div 2),
     !.min_symbols   = IF round > 1 THEN 1 + ((round - 1) \div 3) ELSE 0]

\* the five assignments of the basic requirements
BasicRequirements(round) ==
  [ZeroReqs EXCEPT
     !.min_length    = BASE_MIN_LEN + round + (round \div 2),
     !.min_uppercase = 1 + (round \div 2),
     !.min_lowercase = 1 + (round \div 2),
     !.min_digits    = 1 + (round \div 3),
     !.min_symbols   = IF round > 1 THEN 1 + ((round - 1) \div 3) ELSE 0]

\* if (round >= 3) { ... }
StartEndRule(reqs, round) ==
  IF round >= 3
  THEN LET a == [reqs EXCEPT !.req_start_upper_end_symbol = 1]
           b == IF a.min_length < 2 THEN [a EXCEPT !.min_length = 2] ELSE a
           c == IF b.min_uppercase < 1 THEN [b EXCEPT !.min_uppercase = 1] ELSE b
       IN  IF c.min_symbols < 1 THEN [c EXCEPT !.min_symbols = 1] ELSE c
  ELSE reqs

\* if (round >= 4) { ... }
NoConsecutiveRule(reqs, round) ==
  IF round >= 4 THEN [reqs EXCEPT !.req_no_consecutive_chars = 1] ELSE reqs

\* the palindrome round dropping the symbol and digit minimums
PalindromeRuleRelaxed(reqs, round) ==
  IF round = 5
  THEN [reqs EXCEPT !.req_palindrome = 1, !.min_digits = 0, !.min_symbols = 0]
  ELSE reqs

\* the palindrome rule carried into the later rounds (round >= 5)
PalindromeRuleFromFive(reqs, round) ==
  IF round >= 5 THEN [reqs EXCEPT !.req_palindrome = 1] ELSE reqs

\* the palindrome rule never switched on
PalindromeRuleOff(reqs, round) == reqs

\* if (round == 5) { ... }
PalindromeRule(reqs, round) ==
  IF round = 5 THEN [reqs EXCEPT !.req_palindrome = 1] ELSE reqs

\* the random part taken modulo round * 2, its upper end left out
DigitSumRuleExclusive(g, round, rnd) ==
  IF round >= 7
  THEN LET a == [g.reqs EXCEPT !.req_digit_sum = 1]
           b == IF a.min_digits < 1 THEN [a EXCEPT !.min_digits = 1] ELSE a
       IN  [reqs  |-> [b EXCEPT !.digit_sum_target =
                                  5 + (round \div 2) + (rnd % (round * 2))],
            draws |-> g.draws + 1]
  ELSE g

\* if (round >= 7) { ... rand() % (round * 2 + 1) ... }; g is the generator's
\* working state, the record being filled in and the number of values taken
\* from the random source; rnd is what rand() returns
DigitSumRule(g, round, rnd) ==
  IF round >= 7
  THEN LET a == [g.reqs EXCEPT !.req_digit_sum = 1]
           b == IF a.min_digits < 1 THEN [a EXCEPT !.min_digits = 1] ELSE a
       IN  [reqs  |-> [b EXCEPT !.digit_sum_target =
                                  5 + (round \div 2) + (rnd % (round * 2 + 1))],
            draws |-> g.draws + 1]
  ELSE g

generate_requirements(round, rnd) ==
  LET basic == ClampLength(BasicRequirements(round))
      rules == PalindromeRule(NoConsecutiveRule(StartEndRule(basic, round), round), round)
      g     == DigitSumRule([reqs |-> rules, draws |-> 0], round, rnd)
  IN  [g EXCEPT !.reqs = ClampLength(g.reqs)]

(* ------------------------------------------------------------------ *)
(* generateRequirements (browser script)                               *)
(* ------------------------------------------------------------------ *)
\* reqs.minUppercase + reqs.minLowercase + reqs.minDigits + reqs.minSymbols
minCharSum(reqs) ==
  reqs.min_uppercase + reqs.min_lowercase + reqs.min_digits + reqs.min_symbols

\* if (reqs.minLength < minCharSum) reqs.minLength = minCharSum;
clampLengthJs(reqs) ==
  IF reqs.min_length < minCharSum(reqs)
  THEN [reqs EXCEPT !.min_length = minCharSum(reqs)]
  ELSE reqs

\* the five assignments of the basic requirements; Math.floor(round / n) is
\* round \div n for the rounds >= 1 of the game
basicRequirementsJs(round) ==
  [ZeroReqs EXCEPT
     !.min_length    = BASE_MIN_LEN + round + (round \div 2),
     !.min_uppercase = 1 + (round \div 2),
     !.min_lowercase = 1 + (round \div 2),
     !.min_digits    = 1 + (round \div 3),
     !.min_symbols   = IF round > 1 THEN 1 + ((round - 1) \div 3) ELSE 0]

\* if (round >= 3) { ... }
startEndRuleJs(reqs, round) ==
  IF round >= 3
  THEN LET a == [reqs EXCEPT !.req_start_upper_end_symbol = 1]
           b == IF a.min_length < 2 THEN [a EXCEPT !.min_length = 2] ELSE a
           c == IF b.min_uppercase < 1 THEN [b EXCEPT !.min_uppercase = 1] ELSE b
       IN  IF c.min_symbols < 1 THEN [c EXCEPT !.min_symbols = 1] ELSE c
  ELSE reqs

\* if (round >= 4) { ... }
noConsecutiveRuleJs(reqs, round) ==
  IF round >= 4 THEN [reqs EXCEPT !.req_no_consecutive_chars = 1] ELSE reqs

\* if (round === 5) { ... }
palindromeRuleJs(reqs, round) ==
  IF round = 5 THEN [reqs EXCEPT !.req_palindrome = 1] ELSE reqs

\* Math.random() is step / (MaxRand + 1), a value of [0, 1);
\* Math.floor(Math.random() * n)
randomBelow(step, n) == (step * n) \div (MaxRand + 1)

\* if (round >= 7) { ... }
digitSumRuleJs(g, round, step) ==
  IF round >= 7
  THEN LET a == [g.reqs EXCEPT !.req_digit_sum = 1]
           b == IF a.min_digits < 1 THEN [a EXCEPT !.min_digits = 1] ELSE a
       IN  [reqs  |-> [b EXCEPT !.digit_sum_target =
                                  5 + (round \div 2) + randomBelow(step, round * 2 + 1)],
            draws |-> g.draws + 1]
  ELSE g

generateRequirements(round, step) ==
  LET basic == clampLengthJs(basicRequirementsJs(round))
      rules == palindromeRuleJs(
                 noConsecutiveRuleJs(startEndRuleJs(basic, round), round), round)
      g     == digitSumRuleJs([reqs |-> rules, draws |-> 0], round, step)
  IN  [g EXCEPT !.reqs = clampLengthJs(g.reqs)]

(* ------------------------------------------------------------------ *)
(* State                                                               *)
(* ------------------------------------------------------------------ *)
VARIABLES
  fe,        \* the front-end at work: "c" (pw.c) or "js" (the browser script)
  password,  \* the string handed to the validator (js: the input field's value)
  reqs,      \* current_reqs / currentRequirements
  verdict,   \* what the validator returned, NoVerdict before it has run
  round,     \* round / currentRound
  rnd,       \* the value last asked of the random source
  gen,       \* what the generator returned, NoGen before it has run
  time_limit,       \* current_time_limit / currentTimeLimit
  timer,            \* TRUE while the alarm / the setTimeout timer is pending
  pc,               \* pw.c: where main or get_hidden_input stands
  successful_round, \* pw.c: the flag of the game loop
  timed_out,        \* pw.c: the flag set by the signal handler
  input_result,     \* pw.c: what get_hidden_input returned
  max_len,          \* pw.c: get_hidden_input's max_len
  buffer,           \* pw.c: password_buffer, buffer[j + 1] is the C buffer[j]
  ghi_i,            \* pw.c: get_hidden_input's write index i
  ch,               \* pw.c: the byte just read
  bytes_read,       \* pw.c: what read() returned
  echo,             \* pw.c: the terminal's ECHO bit
  stdin,            \* pw.c: the bytes still to come on standard input
  gameActive,       \* js
  startText,        \* js: startGameButtonEl.textContent
  startDisabled,    \* js: startGameButtonEl.disabled
  inputDisabled,    \* js: passwordInputEl.disabled
  submitDisabled,   \* js: submitButtonEl.disabled
  calls,            \* history: calls of the validator in the current round
  fired             \* history: the deadline of the current round has fired

coreVars == <<fe, password, reqs, verdict, round, rnd, gen>>
cVars == <<pc, successful_round, timed_out, input_result, max_len, buffer, ghi_i, ch,
           bytes_read, echo, stdin>>
jsVars == <<gameActive, startText, startDisabled, inputDisabled, submitDisabled>>
hostVars == <<time_limit, timer, cVars, jsVars, calls, fired>>
vars == <<coreVars, hostVars>>

NoVerdict == [ret |-> -1, out |-> <<>>]
NoGen == [reqs |-> ZeroReqs, draws |-> -1]

\* the terminal program before main has run
CIdle ==
  /\ pc = "start"
  /\ successful_round = 1
  /\ timed_out = 0
  /\ input_result = 0
  /\ max_len = MAX_PASSWORD_LEN
  /\ buffer = <<>>
  /\ ghi_i = 0
  /\ ch = 0
  /\ bytes_read = 0
  /\ echo = 1
  /\ stdin = <<>>

\* the page as initializeGame leaves it
JsIdle ==
  /\ gameActive = FALSE
  /\ startText = "Start Game"
  /\ startDisabled = FALSE
  /\ inputDisabled = TRUE
  /\ submitDisabled = TRUE

HostIdle ==
  /\ time_limit = INITIAL_TIME
  /\ timer = FALSE
  /\ CIdle
  /\ JsIdle
  /\ calls = 0
  /\ fired = FALSE

(* ------------------------------------------------------------------ *)
(* SpecValidate: the validators on every password and every record of  *)
(* the bounded input sets                                               *)
(* ------------------------------------------------------------------ *)
Passwords == UNION {[1..n -> Chars] : n \in 0..MaxPwLen}

Flags == {0, 1}

ReqsInputs ==
  [min_length : {0, 2}, min_uppercase : {0, 1}, min_lowercase : {0, 1},
   min_digits : {0, 1}, min_symbols : {0, 1},
   req_start_upper_end_symbol : Flags, req_no_consecutive_chars : Flags,
   req_palindrome : Flags, req_digit_sum : Flags, digit_sum_target : {0, 2}]

InitValidate ==
  /\ fe \in {"c", "js"}
  /\ password \in Passwords
  /\ reqs \in ReqsInputs
  /\ verdict = NoVerdict
  /\ round = 1
  /\ rnd = 0
  /\ gen = NoGen
  /\ HostIdle

CallValidateC ==
  /\ fe = "c"
  /\ verdict = NoVerdict
  /\ verdict' = validate_password(password, reqs)
  /\ UNCHANGED <<fe, password, reqs, round, rnd, gen, hostVars>>

CallValidateJs ==
  /\ fe = "js"
  /\ verdict = NoVerdict
  /\ verdict' = validatePassword(password, reqs)
  /\ UNCHANGED <<fe, password, reqs, round, rnd, gen, hostVars>>

NextValidate == CallValidateC \/ CallValidateJs

SpecValidate == InitValidate /\ [][NextValidate]_vars

(* ------------------------------------------------------------------ *)
(* SpecGenerate: the generators on every round and every random value  *)
(* ------------------------------------------------------------------ *)
InitGenerate ==
  /\ fe \in {"c", "js"}
  /\ round \in 1..MaxRound
  /\ rnd \in 0..MaxRand
  /\ gen = NoGen
  /\ password = <<>>
  /\ reqs = ZeroReqs
  /\ verdict = NoVerdict
  /\ HostIdle

CallGenerateC ==
  /\ fe = "c"
  /\ gen = NoGen
  /\ gen' = generate_requirements(round, rnd)
  /\ reqs' = gen'.reqs
  /\ UNCHANGED <<fe, password, verdict, round, rnd, hostVars>>

CallGenerateJs ==
  /\ fe = "js"
  /\ gen = NoGen
  /\ gen' = generateRequirements(round, rnd)
  /\ reqs' = gen'.reqs
  /\ UNCHANGED <<fe, password, verdict, round, rnd, hostVars>>

NextGenerate == CallGenerateC \/ CallGenerateJs

SpecGenerate == InitGenerate /\ [][NextGenerate]_vars

(* ------------------------------------------------------------------ *)
(* The terminal program: main, get_hidden_input, handle_timeout        *)
(* ------------------------------------------------------------------ *)
\* What the player may type at one prompt.  A byte of -1 stands for the end
\* of the input (read returns 0), -2 for a failing read (read returns -1);
\* when the bytes run out the player types nothing more and read blocks.
TypedLines ==
  { <<65, 97, 65, 97, 65, 97, 50, 33, 50, 97, 50, 97, 33, 10>>, \* AaAaAa2!2a2a! Enter
    <<97, 10>>,                    \* a Enter
    <<10>>,                        \* Enter alone
    <<97, 127, 127, 1, 65, 13>>,   \* a, backspace twice, SOH, A, Return
    <<195, 169, 97, 10>>,          \* the two bytes of e-acute in UTF-8, a, Enter
    <<97, -1>>,                    \* a, end of input
    <<-2>>,                        \* a failing read
    <<97>>,                        \* a, then nothing
    <<>> }                         \* nothing

\* the string a char array holds: the bytes before its first NUL
CString(buf) ==
  LET nul == {j \in 1..Len(buf) : buf[j] = 0}
      n   == IF nul = {} THEN Len(buf)
             ELSE (CHOOSE j \in nul : \A k \in nul : j <= k) - 1
  IN  SubSeq(buf, 1, n)

\* main, lines 48-63: seed, banner, getchar(), signal(SIGALRM, handle_timeout)
M_Start ==
  /\ fe = "c"
  /\ pc = "start"
  /\ pc' = "loop"
  /\ UNCHANGED <<coreVars, time_limit, timer, successful_round, timed_out,
                 input_result, max_len, buffer, ghi_i, ch, bytes_read, echo, stdin,
                 jsVars, calls, fired>>

\* main, lines 65-70: the loop test, generate_requirements, display_requirements
M_Loop ==
  /\ fe = "c"
  /\ pc = "loop"
  /\ IF successful_round # 0
     THEN /\ \E x \in 0..MaxRand :
               /\ gen' = generate_requirements(round, x)
               /\ rnd' = IF gen'.draws = 0 THEN rnd ELSE x
          /\ reqs' = gen'.reqs
          /\ verdict' = NoVerdict
          /\ calls' = 0
          /\ fired' = FALSE
          /\ pc' = "arm"
     ELSE /\ pc' = "over"
          /\ UNCHANGED <<gen, rnd, reqs, verdict, calls, fired>>
  /\ UNCHANGED <<fe, password, round, time_limit, timer, successful_round, timed_out,
                 input_result, max_len, buffer, ghi_i, ch, bytes_read, echo, stdin,
                 jsVars>>

\* main, lines 73-77: timed_out = 0; alarm(current_time_limit); the prompt,
\* at which the player starts typing
M_Arm ==
  /\ fe = "c"
  /\ pc = "arm"
  /\ timed_out' = 0
  /\ timer' = TRUE
  /\ \E line \in TypedLines : stdin' = stdin \o line
  /\ pc' = "ghi_enter"
  /\ UNCHANGED <<coreVars, time_limit, successful_round, input_result, max_len,
                 buffer, ghi_i, ch, bytes_read, echo, jsVars, calls, fired>>

\* get_hidden_input, lines 282-292: the argument test, set_terminal_echo(0),
\* i = 0, memset(buffer, 0, max_len)
GHI_Enter ==
  /\ fe = "c"
  /\ pc = "ghi_enter"
  /\ IF max_len <= 0
     THEN /\ input_result' = -1
          /\ pc' = "cancel"
          /\ UNCHANGED <<echo, ghi_i, buffer>>
     ELSE /\ echo' = 0
          /\ ghi_i' = 0
          /\ buffer' = [j \in 1..max_len |-> 0]
          /\ pc' = "ghi_loop"
          /\ UNCHANGED input_result
  /\ UNCHANGED <<coreVars, time_limit, timer, successful_round, timed_out, max_len,
                 ch, bytes_read, stdin, jsVars, calls, fired>>

\* the loop test one too wide: while (i < max_len)
GHI_LoopOffByOne ==
  /\ fe = "c"
  /\ pc = "ghi_loop"
  /\ pc' = IF ghi_i < max_len THEN "ghi_read" ELSE "ghi_done"
  /\ UNCHANGED <<coreVars, time_limit, timer, successful_round, timed_out,
                 input_result, max_len, buffer, ghi_i, ch, bytes_read, echo, stdin,
                 jsVars, calls, fired>>

\* get_hidden_input, line 294: while (i < max_len - 1)
GHI_Loop ==
  /\ fe = "c"
  /\ pc = "ghi_loop"
  /\ pc' = IF ghi_i < max_len - 1 THEN "ghi_read" ELSE "ghi_done"
  /\ UNCHANGED <<coreVars, time_limit, timer, successful_round, timed_out,
                 input_result, max_len, buffer, ghi_i, ch, bytes_read, echo, stdin,
                 jsVars, calls, fired>>

\* get_hidden_input, line 297: bytes_read = read(STDIN_FILENO, &ch, 1), with
\* something to read
GHI_Read ==
  /\ fe = "c"
  /\ pc = "ghi_read"
  /\ stdin # <<>>
  /\ stdin' = Tail(stdin)
  /\ IF Head(stdin) = -1 THEN bytes_read' = 0 /\ UNCHANGED ch
     ELSE IF Head(stdin) = -2 THEN bytes_read' = -1 /\ UNCHANGED ch
     ELSE bytes_read' = 1 /\ ch' = Head(stdin)
  /\ pc' = "ghi_after_read"
  /\ UNCHANGED <<coreVars, time_limit, timer, successful_round, timed_out,
                 input_result, max_len, buffer, ghi_i, echo, jsVars, calls, fired>>

\* the return on a failing read without set_terminal_echo(1)
GHI_AfterReadEchoKept ==
  /\ fe = "c"
  /\ pc = "ghi_after_read"
  /\ IF timed_out # 0
     THEN /\ echo' = 1
          /\ buffer' = [buffer EXCEPT ![ghi_i + 1] = 0]
          /\ input_result' = 0
          /\ pc' = "cancel"
          /\ UNCHANGED ghi_i
     ELSE IF bytes_read < 0
     THEN /\ input_result' = -1
          /\ pc' = "cancel"
          /\ UNCHANGED <<echo, buffer, ghi_i>>
     ELSE IF bytes_read = 0 \/ ch = 10 \/ ch = 13
     THEN /\ pc' = "ghi_done"
          /\ UNCHANGED <<echo, buffer, ghi_i, input_result>>
     ELSE IF ch = 127 \/ ch = 8
     THEN /\ ghi_i' = IF ghi_i > 0 THEN ghi_i - 1 ELSE ghi_i
          /\ pc' = "ghi_loop"
          /\ UNCHANGED <<echo, buffer, input_result>>
     ELSE IF isprint(ch)
     THEN /\ buffer' = [buffer EXCEPT ![ghi_i + 1] = ch]
          /\ ghi_i' = ghi_i + 1
          /\ pc' = "ghi_loop"
          /\ UNCHANGED <<echo, input_result>>
     ELSE /\ pc' = "ghi_loop"
          /\ UNCHANGED <<echo, buffer, ghi_i, input_result>>
  /\ UNCHANGED <<coreVars, time_limit, timer, successful_round, timed_out, max_len,
                 ch, bytes_read, stdin, jsVars, calls, fired>>

\* get_hidden_input, lines 299-328: the timeout test, the error and end-of-file
\* tests, then the byte: Enter, backspace, printable, anything else
GHI_AfterRead ==
  /\ fe = "c"
  /\ pc = "ghi_after_read"
  /\ IF timed_out # 0
     THEN /\ echo' = 1
          /\ buffer' = [buffer EXCEPT ![ghi_i + 1] = 0]
          /\ input_result' = 0
          /\ pc' = "cancel"
          /\ UNCHANGED ghi_i
     ELSE IF bytes_read < 0
     THEN /\ echo' = 1
          /\ input_result' = -1
          /\ pc' = "cancel"
          /\ UNCHANGED <<buffer, ghi_i>>
     ELSE IF bytes_read = 0 \/ ch = 10 \/ ch = 13
     THEN /\ pc' = "ghi_done"
          /\ UNCHANGED <<echo, buffer, ghi_i, input_result>>
     ELSE IF ch = 127 \/ ch = 8
     THEN /\ ghi_i' = IF ghi_i > 0 THEN ghi_i - 1 ELSE ghi_i
          /\ pc' = "ghi_loop"
          /\ UNCHANGED <<echo, buffer, input_result>>
     ELSE IF isprint(ch)
     THEN /\ buffer' = [buffer EXCEPT ![ghi_i + 1] = ch]
          /\ ghi_i' = ghi_i + 1
          /\ pc' = "ghi_loop"
          /\ UNCHANGED <<echo, input_result>>
     ELSE /\ pc' = "ghi_loop"
          /\ UNCHANGED <<echo, buffer, ghi_i, input_result>>
  /\ UNCHANGED <<coreVars, time_limit, timer, successful_round, timed_out, max_len,
                 ch, bytes_read, stdin, jsVars, calls, fired>>

\* get_hidden_input, lines 331-334: buffer[i] = '\0'; set_terminal_echo(1);
\* return i
GHI_Done ==
  /\ fe = "c"
  /\ pc = "ghi_done"
  /\ buffer' = [buffer EXCEPT ![ghi_i + 1] = 0]
  /\ echo' = 1
  /\ input_result' = ghi_i
  /\ pc' = "cancel"
  /\ UNCHANGED <<coreVars, time_limit, timer, successful_round, timed_out, max_len,
                 ghi_i, ch, bytes_read, stdin, jsVars, calls, fired>>

\* main, line 83: alarm(0)
M_Cancel ==
  /\ fe = "c"
  /\ pc = "cancel"
  /\ timer' = FALSE
  /\ pc' = "check"
  /\ UNCHANGED <<coreVars, time_limit, successful_round, timed_out, input_result,
                 max_len, buffer, ghi_i, ch, bytes_read, echo, stdin, jsVars, calls,
                 fired>>

\* the two tests skipped: whatever was captured goes on to the validator
M_CheckSkipped ==
  /\ fe = "c"
  /\ pc = "check"
  /\ pc' = "validate"
  /\ UNCHANGED <<coreVars, time_limit, timer, successful_round, timed_out,
                 input_result, max_len, buffer, ghi_i, ch, bytes_read, echo, stdin,
                 jsVars, calls, fired>>

\* the second test as input_result < 0: an empty line goes on to the validator
M_CheckEmptyAccepted ==
  /\ fe = "c"
  /\ pc = "check"
  /\ IF timed_out # 0 \/ input_result < 0
     THEN successful_round' = 0 /\ pc' = "loop"
     ELSE pc' = "validate" /\ UNCHANGED successful_round
  /\ UNCHANGED <<coreVars, time_limit, timer, timed_out, input_result, max_len,
                 buffer, ghi_i, ch, bytes_read, echo, stdin, jsVars, calls, fired>>

\* main, lines 86-97: if (timed_out) ... continue; if (input_result <= 0) ...
\* continue;
M_Check ==
  /\ fe = "c"
  /\ pc = "check"
  /\ IF timed_out # 0 \/ input_result <= 0
     THEN successful_round' = 0 /\ pc' = "loop"
     ELSE pc' = "validate" /\ UNCHANGED successful_round
  /\ UNCHANGED <<coreVars, time_limit, timer, timed_out, input_result, max_len,
                 buffer, ghi_i, ch, bytes_read, echo, stdin, jsVars, calls, fired>>

\* the time limit left as it was after a successful round
M_ValidateTimeKept ==
  /\ fe = "c"
  /\ pc = "validate"
  /\ password' = CString(buffer)
  /\ verdict' = validate_password(password', reqs)
  /\ calls' = calls + 1
  /\ IF verdict'.ret # 0
     THEN /\ round' = round + 1
          /\ UNCHANGED <<time_limit, successful_round>>
     ELSE /\ successful_round' = 0
          /\ UNCHANGED <<round, time_limit>>
  /\ pc' = "loop"
  /\ UNCHANGED <<fe, reqs, rnd, gen, timer, timed_out, input_result, max_len, buffer,
                 ghi_i, ch, bytes_read, echo, stdin, jsVars, fired>>

\* the round counted up whatever the verdict
M_ValidateRoundAlways ==
  /\ fe = "c"
  /\ pc = "validate"
  /\ password' = CString(buffer)
  /\ verdict' = validate_password(password', reqs)
  /\ calls' = calls + 1
  /\ round' = round + 1
  /\ IF verdict'.ret # 0
     THEN /\ time_limit' = IF time_limit - TIME_DECREMENT > MIN_TIME
                           THEN time_limit - TIME_DECREMENT ELSE MIN_TIME
          /\ UNCHANGED successful_round
     ELSE /\ successful_round' = 0
          /\ UNCHANGED time_limit
  /\ pc' = "loop"
  /\ UNCHANGED <<fe, reqs, rnd, gen, timer, timed_out, input_result, max_len, buffer,
                 ghi_i, ch, bytes_read, echo, stdin, jsVars, fired>>

\* main, lines 99-114: validate_password(password_buffer, &current_reqs), then
\* the next round with less time, or the end of the game
M_Validate ==
  /\ fe = "c"
  /\ pc = "validate"
  /\ password' = CString(buffer)
  /\ verdict' = validate_password(password', reqs)
  /\ calls' = calls + 1
  /\ IF verdict'.ret # 0
     THEN /\ round' = round + 1
          /\ time_limit' = IF time_limit - TIME_DECREMENT > MIN_TIME
                           THEN time_limit - TIME_DECREMENT ELSE MIN_TIME
          /\ UNCHANGED successful_round
     ELSE /\ successful_round' = 0
          /\ UNCHANGED <<round, time_limit>>
  /\ pc' = "loop"
  /\ UNCHANGED <<fe, reqs, rnd, gen, timer, timed_out, input_result, max_len, buffer,
                 ghi_i, ch, bytes_read, echo, stdin, jsVars, fired>>

\* main, lines 117-126: the summary, return 0
M_GameOver ==
  /\ fe = "c"
  /\ pc = "over"
  /\ pc' = "exit"
  /\ UNCHANGED <<coreVars, time_limit, timer, successful_round, timed_out,
                 input_result, max_len, buffer, ghi_i, ch, bytes_read, echo, stdin,
                 jsVars, calls, fired>>

\* handle_timeout, run when the pending alarm expires.  A read that is blocked
\* at that moment either returns -1 (EINTR) or is restarted by the kernel,
\* as the platform's signal() installs the handler.
handle_timeout ==
  /\ fe = "c"
  /\ timer
  /\ timer' = FALSE
  /\ timed_out' = 1
  /\ fired' = TRUE
  /\ IF pc = "ghi_read" /\ stdin = <<>>
     THEN \/ pc' = "ghi_after_read" /\ bytes_read' = -1
          \/ UNCHANGED <<pc, bytes_read>>
     ELSE UNCHANGED <<pc, bytes_read>>
  /\ UNCHANGED <<coreVars, time_limit, successful_round, input_result, max_len,
                 buffer, ghi_i, ch, echo, stdin, jsVars, calls>>

NextC ==
  \/ M_Start \/ M_Loop \/ M_Arm \/ GHI_Enter \/ GHI_Loop \/ GHI_Read
  \/ GHI_AfterRead \/ GHI_Done \/ M_Cancel \/ M_Check \/ M_Validate
  \/ M_GameOver \/ handle_timeout

(* ------------------------------------------------------------------ *)
(* The browser script: the click and key listeners, startRound,        *)
(* handleSubmit, handleTimeout                                         *)
(* ------------------------------------------------------------------ *)
\* what the player may have in the password field
TypedTexts ==
  { <<>>,
    <<97>>,                                                  \* a
    <<65, 97, 65, 97, 65, 97, 50, 33, 50, 97, 50, 97, 33>> } \* AaAaAa2!2a2a!

\* the click listener of the start button, and startRound with startTimer
ClickStart ==
  /\ fe = "js"
  /\ ~startDisabled
  /\ LET currentRound == IF startText # "Start Next Round" THEN 0 ELSE round
     IN  /\ round' = currentRound + 1
         /\ time_limit' =
              IF MIN_TIME >= INITIAL_TIME - (round' - 1) * TIME_DECREMENT
              THEN MIN_TIME ELSE INITIAL_TIME - (round' - 1) * TIME_DECREMENT
         /\ \E x \in 0..MaxRand :
              /\ gen' = generateRequirements(round', x)
              /\ rnd' = IF gen'.draws = 0 THEN rnd ELSE x
  /\ reqs' = gen'.reqs
  /\ gameActive' = TRUE
  /\ inputDisabled' = FALSE
  /\ submitDisabled' = FALSE
  /\ password' = <<>>
  /\ startDisabled' = TRUE
  /\ startText' = "Start Game"
  /\ timer' = TRUE
  /\ verdict' = NoVerdict
  /\ calls' = 0
  /\ fired' = FALSE
  /\ UNCHANGED <<fe, cVars>>

\* the player edits the password field
TypeText ==
  /\ fe = "js"
  /\ ~inputDisabled
  /\ \E text \in TypedTexts : password' = text
  /\ UNCHANGED <<fe, reqs, verdict, round, rnd, gen, hostVars>>

\* handleSubmit
handleSubmit ==
  IF ~gameActive
  THEN UNCHANGED vars
  ELSE /\ timer' = FALSE
       /\ verdict' = validatePassword(password, reqs)
       /\ calls' = calls + 1
       /\ inputDisabled' = TRUE
       /\ submitDisabled' = TRUE
       /\ startDisabled' = FALSE
       /\ IF verdict'.ret = 1
          THEN startText' = "Start Next Round" /\ UNCHANGED gameActive
          ELSE startText' = "Play Again?" /\ gameActive' = FALSE
       /\ UNCHANGED <<fe, password, reqs, round, rnd, gen, time_limit, cVars, fired>>

\* the click listener of the submit button
ClickSubmit ==
  /\ fe = "js"
  /\ ~submitDisabled
  /\ handleSubmit

\* the keypress listener of the password field
PressEnter ==
  /\ fe = "js"
  /\ ~inputDisabled
  /\ gameActive /\ ~submitDisabled
  /\ handleSubmit

\* handleTimeout, run when the pending setTimeout timer expires
handleTimeout ==
  /\ fe = "js"
  /\ timer
  /\ timer' = FALSE
  /\ fired' = TRUE
  /\ gameActive' = FALSE
  /\ inputDisabled' = TRUE
  /\ submitDisabled' = TRUE
  /\ startText' = "Play Again?"
  /\ startDisabled' = FALSE
  /\ UNCHANGED <<coreVars, time_limit, cVars, calls>>

NextJs == ClickStart \/ TypeText \/ ClickSubmit \/ PressEnter \/ handleTimeout

(* ------------------------------------------------------------------ *)
(* SpecHost: one game after another in either front-end                *)
(* ------------------------------------------------------------------ *)
InitHost ==
  /\ fe \in {"c", "js"}
  /\ round = IF fe = "c" THEN 1 ELSE 0
  /\ password = <<>>
  /\ reqs = ZeroReqs
  /\ verdict = NoVerdict
  /\ rnd = 0
  /\ gen = NoGen
  /\ HostIdle

NextHost == NextC \/ NextJs

SpecHost == InitHost /\ [][NextHost]_vars

Spec == SpecHost

(* ------------------------------------------------------------------ *)
(* The terms of the specification                                      *)
(* ------------------------------------------------------------------ *)
UpperLetters == 65..90
LowerLetters == 97..122
DecimalDigits == 48..57
Whitespace == (9..13) \cup {32}
\* a symbol is any character that is none of: uppercase letter, lowercase
\* letter, digit, whitespace
Symbols == (0..127) \ (UpperLetters \cup LowerLetters \cup DecimalDigits \cup Whitespace)
\* the punctuation characters of the "C" locale
Punctuation == (33..47) \cup (58..64) \cup (91..96) \cup (123..126)

CountIn(p, S) == Cardinality({i \in DOMAIN p : p[i] \in S})

RECURSIVE DigitSumOf(_)
DigitSumOf(p) ==
  IF p = <<>> THEN 0
  ELSE (IF Head(p) \in DecimalDigits THEN Head(p) - 48 ELSE 0) + DigitSumOf(Tail(p))

ReverseOf(p) == [i \in 1..Len(p) |-> p[Len(p) + 1 - i]]

\* the nine checks of the validator, in their order, with Sym the symbols
CheckHolds(n, p, r, Sym) ==
  CASE n = 1 -> Len(p) >= r.min_length
    [] n = 2 -> CountIn(p, UpperLetters) >= r.min_uppercase
    [] n = 3 -> CountIn(p, LowerLetters) >= r.min_lowercase
    [] n = 4 -> CountIn(p, DecimalDigits) >= r.min_digits
    [] n = 5 -> CountIn(p, Sym) >= r.min_symbols
    [] n = 6 -> r.req_start_upper_end_symbol # 0 =>
                  (Len(p) > 0 /\ p[1] \in UpperLetters /\ p[Len(p)] \in Sym)
    [] n = 7 -> r.req_no_consecutive_chars # 0 =>
                  ~(\E i \in 1..(Len(p) - 1) : p[i] = p[i + 1])
    [] n = 8 -> r.req_palindrome # 0 => p = ReverseOf(p)
    [] n = 9 -> r.req_digit_sum # 0 =>
                  (/\ DigitSumOf(p) = r.digit_sum_target
                   /\ ~(r.min_digits = 0 /\ r.digit_sum_target # 0))

AllChecksHold(p, r, Sym) == \A n \in 1..9 : CheckHolds(n, p, r, Sym)

\* the number of the first failing check, 0 when every check holds
FirstFailing(p, r, Sym) ==
  IF AllChecksHold(p, r, Sym) THEN 0
  ELSE CHOOSE n \in 1..9 :
         /\ ~CheckHolds(n, p, r, Sym)
         /\ \A m \in 1..(n - 1) : CheckHolds(m, p, r, Sym)

\* the check a failure line belongs to
CheckOfReason(reason) ==
  CASE reason = "too_short" -> 1
    [] reason = "uppercase" -> 2
    [] reason = "lowercase" -> 3
    [] reason = "digits" -> 4
    [] reason = "symbols" -> 5
    [] reason \in {"start_end_empty", "start_upper", "end_symbol"} -> 6
    [] reason = "consecutive" -> 7
    [] reason = "palindrome" -> 8
    [] reason \in {"digit_sum", "digit_sum_impossible"} -> 9

Validated == verdict # NoVerdict
Generated == gen # NoGen

\* what each front-end's own classifier takes for a symbol
OwnSymbols == IF fe = "c" THEN Punctuation ELSE Symbols

\* the counting loop of the front-end at work, on the password in hand
OwnCounts ==
  IF fe = "c" THEN CountLoop(password, 1, NoCounts) ELSE countLoopJs(password, 1, NoCounts)

(* ------------------------------------------------------------------ *)
(* C1                                                                  *)
(* ------------------------------------------------------------------ *)
\* C1: for every password and every Requirements record, validate returns
\* Valid exactly when all nine conditions hold (length, the four class
\* minimums, start/end, no adjacent equal characters, palindrome, digit sum
\* with a satisfiable configuration), and Invalid in every other case.
C1_ValidIffAllChecks ==
  Validated =>
    /\ verdict.ret \in {0, 1}
    /\ (verdict.ret = 1) <=> AllChecksHold(password, reqs, Symbols)

\* The same equivalence with each front-end's own notion of a symbol: the
\* conjunction of the checks is what both validators compute.
ValidIffAllChecksOwnSymbols ==
  Validated =>
    /\ verdict.ret \in {0, 1}
    /\ (verdict.ret = 1) <=> AllChecksHold(password, reqs, OwnSymbols)

(* ------------------------------------------------------------------ *)
(* C2                                                                  *)
(* ------------------------------------------------------------------ *)
\* C2: an Invalid password gets exactly one failure reason, the reason of
\* the first failing check in the fixed order; a password that is too short
\* and lacks uppercase letters reports too short.
C2_FirstFailingCheckReported ==
  (Validated /\ verdict.ret = 0) =>
    /\ Len(verdict.out) = 1
    /\ CheckOfReason(verdict.out[1].reason) = FirstFailing(password, reqs, Symbols)

\* The same with each front-end's own notion of a symbol, and nothing is
\* reported for a Valid password.
FirstFailingCheckReportedOwnSymbols ==
  Validated =>
    IF verdict.ret = 0
    THEN /\ Len(verdict.out) = 1
         /\ CheckOfReason(verdict.out[1].reason) = FirstFailing(password, reqs, OwnSymbols)
    ELSE verdict.out = <<>>

(* ------------------------------------------------------------------ *)
(* C8                                                                  *)
(* ------------------------------------------------------------------ *)
\* C8: the validator's counting loop classifies every character exactly
\* once: a character that is no uppercase letter, lowercase letter, digit or
\* whitespace counts as a symbol (non-printable ones included), whitespace
\* counts toward the length only, so upper + lower + digit + symbol +
\* whitespace = length.
C8_EveryCharacterClassified ==
  Validated =>
    /\ OwnCounts.upper = CountIn(password, UpperLetters)
    /\ OwnCounts.lower = CountIn(password, LowerLetters)
    /\ OwnCounts.digit = CountIn(password, DecimalDigits)
    /\ OwnCounts.symbol = CountIn(password, Symbols)
    /\ OwnCounts.upper + OwnCounts.lower + OwnCounts.digit + OwnCounts.symbol
         + CountIn(password, Whitespace) = Len(password)

(* ------------------------------------------------------------------ *)
(* C9                                                                  *)
(* ------------------------------------------------------------------ *)
\* the validator got as far as the digit-sum check
ReachedDigitSumCheck ==
  \/ verdict.ret = 1
  \/ /\ verdict.ret = 0
     /\ Len(verdict.out) = 1
     /\ verdict.out[1].reason \in {"digit_sum", "digit_sum_impossible"}

UnsatisfiableDigitSum ==
  reqs.req_digit_sum # 0 /\ reqs.min_digits = 0 /\ reqs.digit_sum_target # 0

\* C9 as stated: with requireDigitSum, minDigits = 0 and a nonzero target,
\* a validator that reaches the digit-sum check reports the
\* unsatisfiable-configuration reason for every password.
C9_UnsatisfiableAlwaysDistinct ==
  (Validated /\ UnsatisfiableDigitSum /\ ReachedDigitSumCheck) =>
    /\ verdict.ret = 0
    /\ verdict.out[1].reason = "digit_sum_impossible"

\* C9 amended: in that configuration a validator that reaches the digit-sum
\* check always returns Invalid, with the ordinary digit-sum-mismatch reason
\* when the password's digit sum differs from the target and with the
\* unsatisfiable-configuration reason only when the digit sum equals it.
C9_UnsatisfiableOnlyWhenSumMatches ==
  (Validated /\ UnsatisfiableDigitSum /\ ReachedDigitSumCheck) =>
    /\ verdict.ret = 0
    /\ verdict.out[1].reason =
         IF DigitSumOf(password) = reqs.digit_sum_target
         THEN "digit_sum_impossible" ELSE "digit_sum"

C9_Witness ==
  /\ Validated
  /\ UnsatisfiableDigitSum
  /\ verdict.ret = 0
  /\ verdict.out[1].reason = "digit_sum_impossible"
  /\ DigitSumOf(password) = reqs.digit_sum_target

(* ------------------------------------------------------------------ *)
(* C3                                                                  *)
(* ------------------------------------------------------------------ *)
\* C3 (I1): for every round and every random draw the generated record has
\* minLength >= minUppercase + minLowercase + minDigits + minSymbols.
C3_LengthCoversClassMinimums ==
  Generated =>
    reqs.min_length >=
      reqs.min_uppercase + reqs.min_lowercase + reqs.min_digits + reqs.min_symbols

\* a round in which the sum of the class minimums exceeds 6 + r + floor(r/2)
C3_Witness ==
  /\ Generated
  /\ reqs.min_length > BASE_MIN_LEN + round + (round \div 2)
  /\ reqs.min_length =
       reqs.min_uppercase + reqs.min_lowercase + reqs.min_digits + reqs.min_symbols

(* ------------------------------------------------------------------ *)
(* C4                                                                  *)
(* ------------------------------------------------------------------ *)
\* C4 (I2, I3): in the generated record requireStartUpperEndSymbol implies
\* minUppercase >= 1, minSymbols >= 1 and minLength >= 2, and
\* requireDigitSum implies minDigits >= 1.
C4_RuleImpliesMinimums ==
  Generated =>
    /\ reqs.req_start_upper_end_symbol # 0 =>
         (reqs.min_uppercase >= 1 /\ reqs.min_symbols >= 1 /\ reqs.min_length >= 2)
    /\ reqs.req_digit_sum # 0 => reqs.min_digits >= 1

C4_Witness ==
  /\ Generated
  /\ round = 5
  /\ reqs.req_start_upper_end_symbol = 1
  /\ reqs.req_palindrome = 1
  /\ reqs.min_symbols >= 1

(* ------------------------------------------------------------------ *)
(* C5                                                                  *)
(* ------------------------------------------------------------------ *)
Max(a, b) == IF a >= b THEN a ELSE b

\* C5: minUppercase = minLowercase = 1 + floor(r/2), minDigits = 1 +
\* floor(r/3), minSymbols = 0 for r = 1 and 1 + floor((r-1)/3) otherwise,
\* minLength = max(6 + r + floor(r/2), sum of the four minimums); round 1
\* gives length 7, minimums 1, 1, 1, 0 and no special rule.
C5_BasicRequirementsByRound ==
  Generated =>
    /\ reqs.min_uppercase = 1 + (round \div 2)
    /\ reqs.min_lowercase = 1 + (round \div 2)
    /\ reqs.min_digits = 1 + (round \div 3)
    /\ reqs.min_symbols = IF round = 1 THEN 0 ELSE 1 + ((round - 1) \div 3)
    /\ reqs.min_length =
         Max(6 + round + (round \div 2),
             reqs.min_uppercase + reqs.min_lowercase + reqs.min_digits + reqs.min_symbols)
    /\ round = 1 =>
         reqs = [min_length |-> 7, min_uppercase |-> 1, min_lowercase |-> 1,
                 min_digits |-> 1, min_symbols |-> 0,
                 req_start_upper_end_symbol |-> 0, req_no_consecutive_chars |-> 0,
                 req_palindrome |-> 0, req_digit_sum |-> 0, digit_sum_target |-> 0]

C5_Witness ==
  /\ Generated
  /\ round = 1
  /\ reqs.min_length = 7
  /\ reqs.min_symbols = 0

(* ------------------------------------------------------------------ *)
(* C6                                                                  *)
(* ------------------------------------------------------------------ *)
\* C6: requireStartUpperEndSymbol iff r >= 3, requireNoConsecutiveChars iff
\* r >= 4, requireDigitSum iff r >= 7, requirePalindrome iff r = 5.
C6_RuleThresholds ==
  Generated =>
    /\ (reqs.req_start_upper_end_symbol # 0) <=> (round >= 3)
    /\ (reqs.req_no_consecutive_chars # 0) <=> (round >= 4)
    /\ (reqs.req_digit_sum # 0) <=> (round >= 7)
    /\ (reqs.req_palindrome # 0) <=> (round = 5)

\* round 6: the palindrome rule is off again, the earlier rules stay on
C6_Witness ==
  /\ Generated
  /\ round = 6
  /\ reqs.req_palindrome = 0
  /\ reqs.req_no_consecutive_chars = 1
  /\ reqs.req_start_upper_end_symbol = 1

(* ------------------------------------------------------------------ *)
(* C7                                                                  *)
(* ------------------------------------------------------------------ *)
\* the generator of the front-end at work
Generate(r, x) ==
  IF fe = "c" THEN generate_requirements(r, x) ELSE generateRequirements(r, x)

DigitSumInterval(r) == (5 + (r \div 2))..(5 + (r \div 2) + 2 * r)

\* C7: for r >= 7 and every value of the random source digitSumTarget lies
\* in [5 + floor(r/2), 5 + floor(r/2) + 2r] (one draw consumed) and every
\* value of the interval is a possible outcome; for r < 7 no draw is
\* consumed and digitSumTarget is 0.
C7_DigitSumTargetInterval ==
  Generated =>
    IF round >= 7
    THEN /\ reqs.digit_sum_target \in DigitSumInterval(round)
         /\ gen.draws = 1
         /\ \A t \in DigitSumInterval(round) :
              \E x \in 0..MaxRand : Generate(round, x).reqs.digit_sum_target = t
    ELSE /\ gen.draws = 0
         /\ reqs.digit_sum_target = 0

\* the largest target of a round is drawn
C7_Witness ==
  /\ Generated
  /\ round >= 7
  /\ gen.draws = 1
  /\ reqs.digit_sum_target = 5 + (round \div 2) + 2 * round

(* ------------------------------------------------------------------ *)
(* C10                                                                 *)
(* ------------------------------------------------------------------ *)
\* C10: in every run of either host the validator is invoked at most once
\* per round, and in a round whose deadline has fired it is not invoked at
\* all: the timeout ends the round without a verdict.
C10_NoValidationAfterDeadline ==
  /\ calls <= 1
  /\ fired => (calls = 0 /\ verdict = NoVerdict)

\* once the deadline of a round has fired no step invokes the validator
C10_NoValidateStepAfterDeadline == [][fired => calls' <= calls]_vars

\* the terminal program captured a whole line, the alarm went off before
\* alarm(0), and the game ended without the validator having run
C10_Witness ==
  /\ fe = "c"
  /\ fired
  /\ input_result > 0
  /\ pc = "over"
  /\ calls = 0

\* the page timed out with text in the password field
C10_WitnessJs ==
  /\ fe = "js"
  /\ fired
  /\ password # <<>>
  /\ ~gameActive
  /\ calls = 0

(* ------------------------------------------------------------------ *)
(* C11                                                                 *)
(* ------------------------------------------------------------------ *)
\* the limit the specification gives round r
TimeLimitOfRound(r) == Max(10, 60 - 5 * (r - 1))

\* main, lines 106-107, applied after each of the r - 1 successes before round r
RECURSIVE current_time_limit_in(_)
current_time_limit_in(r) ==
  IF r = 1 THEN INITIAL_TIME
  ELSE LET current_time_limit == current_time_limit_in(r - 1)
       IN  IF current_time_limit - TIME_DECREMENT > MIN_TIME
           THEN current_time_limit - TIME_DECREMENT ELSE MIN_TIME

\* startRound: Math.max(MIN_TIME, INITIAL_TIME - (currentRound - 1) * TIME_DECREMENT)
currentTimeLimitIn(currentRound) ==
  IF MIN_TIME >= INITIAL_TIME - (currentRound - 1) * TIME_DECREMENT
  THEN MIN_TIME ELSE INITIAL_TIME - (currentRound - 1) * TIME_DECREMENT

\* a game of the page begins: the start button does not say "Start Next Round"
NewGameStep == fe = "js" /\ round' = 1 /\ startText # "Start Next Round"

\* C11: in every run of either host the time limit of round r is
\* max(10, 60 - 5 * (r - 1)), it lies in 10..60, and no step raises it
\* except the one that begins a new game.
C11_TimeLimitByRound ==
  /\ [](round >= 1 => /\ time_limit = TimeLimitOfRound(round)
                      /\ time_limit \in 10..60)
  /\ [][time_limit' > time_limit => NewGameStep]_vars

\* the two ways of computing the limit agree with the formula in every round,
\* those past the floor of MIN_TIME included
TimeLimitFormulaEveryRound ==
  \A r \in 1..MaxRound :
    /\ current_time_limit_in(r) = TimeLimitOfRound(r)
    /\ currentTimeLimitIn(r) = TimeLimitOfRound(r)

\* the terminal program in its fifth round, after four successes
C11_Witness ==
  /\ fe = "c"
  /\ round = 5
  /\ time_limit = 40
  /\ pc = "ghi_read"

\* the page in its fifth round
C11_WitnessJs ==
  /\ fe = "js"
  /\ round = 5
  /\ time_limit = 40
  /\ gameActive

(* ------------------------------------------------------------------ *)
(* C12                                                                 *)
(* ------------------------------------------------------------------ *)
\* the terminal program's round has ended without a Valid verdict: by an
\* Invalid verdict, by the timeout, or by an input error
RoundLostC ==
  /\ fe = "c"
  /\ Generated
  /\ pc \in {"loop", "over", "exit"}
  /\ (verdict.ret = 0 \/ timed_out # 0 \/ input_result <= 0)

\* the page's round has ended by an Invalid verdict or by the timeout
RoundLostJs == fe = "js" /\ (verdict.ret = 0 \/ fired)

\* what a step may do to the round counter and to the requirements
RoundCounterStep ==
  \* the first round of a run has number 1
  /\ (~Generated /\ Generated') => round' = 1
  \* the counter changes by one, on a Valid verdict for the round in hand
  /\ round' # round =>
       \/ fe = "c" /\ round' = round + 1 /\ verdict'.ret = 1 /\ calls' = calls + 1
       \/ fe = "js" /\ round' = round + 1 /\ verdict.ret = 1 /\ calls = 1
       \/ NewGameStep
  \* a lost round is the last of its game: no requirements are generated
  \* and no deadline is set for that game any more
  /\ RoundLostC => (round' = round /\ gen' = gen /\ pc' # "arm" /\ ~timer')
  /\ RoundLostJs => (round' = round /\ gen' = gen /\ ~timer') \/ NewGameStep

\* C12: in every run of either host the round counter starts at 1 and goes
\* up by exactly 1 only after a Valid verdict for the current round; after
\* an Invalid verdict, a timeout or an input error that game gets no further
\* round and no further call of the generator.
C12_RoundCountedOnValid == [][RoundCounterStep]_vars

\* the terminal program won two rounds and lost the third to an Invalid verdict
C12_Witness ==
  /\ fe = "c"
  /\ round = 3
  /\ verdict.ret = 0
  /\ pc = "exit"

\* the page won two rounds and lost the third to the timeout
C12_WitnessJs ==
  /\ fe = "js"
  /\ round = 3
  /\ fired
  /\ ~gameActive
  /\ startText = "Play Again?"

(* ------------------------------------------------------------------ *)
(* C13                                                                 *)
(* ------------------------------------------------------------------ *)
OwnStartEndReads ==
  IF fe = "c" THEN start_end_reads(password, reqs) ELSE startEndReadsJs(password, reqs)

\* the empty password under the start/end rule, with nothing else required
EmptyUnderStartEndRule ==
  /\ password = <<>>
  /\ reqs.req_start_upper_end_symbol = 1
  /\ reqs.min_length = 0
  /\ reqs.min_uppercase = 0 /\ reqs.min_lowercase = 0
  /\ reqs.min_digits = 0 /\ reqs.min_symbols = 0

\* C13: for the empty password with the start/end rule on and minLength and
\* all class minimums 0, either validator returns Invalid with the reason of
\* its own for the empty password, and the start/end block reads no
\* character: neither index 0 nor index len - 1.
C13_EmptyPasswordStartEnd ==
  (Validated /\ EmptyUnderStartEndRule) =>
     /\ verdict = Fail("start_end_empty", <<>>)
     /\ OwnStartEndReads = {}

\* pw.c has judged the empty password under the start/end rule, with the
\* other three rules on as well
C13_Witness ==
  /\ fe = "c"
  /\ Validated
  /\ EmptyUnderStartEndRule
  /\ reqs.req_no_consecutive_chars = 1 /\ reqs.req_palindrome = 1
  /\ reqs.req_digit_sum = 1
  /\ verdict.ret = 0

(* ------------------------------------------------------------------ *)
(* C14                                                                 *)
(* ------------------------------------------------------------------ *)
\* the reason of a verdict, "" for Valid
ReasonOf(v) == IF v.out = <<>> THEN "" ELSE v.out[1].reason

\* the two validators on the password and the record in hand
BothValidated ==
  [c |-> validate_password(password, reqs), js |-> validatePassword(password, reqs)]

\* C14: for every password and every Requirements record validate_password
\* returns 1 exactly when validatePassword returns true, and when both
\* reject they reject for the same check.
C14_FrontEndsAgree ==
  Validated =>
    /\ BothValidated.c.ret = BothValidated.js.ret
    /\ BothValidated.c.ret = 0 =>
         CheckOfReason(ReasonOf(BothValidated.c)) = CheckOfReason(ReasonOf(BothValidated.js))

\* the passwords of printable characters and whitespace, on which ispunct and
\* the script's isSymbol agree
PrintableOrSpace == \A i \in DOMAIN password : isprint(password[i]) \/ reSpace(password[i])

\* on those passwords the two validators return the same verdict, failure
\* line included
FrontEndsAgreeOnPrintable ==
  (Validated /\ PrintableOrSpace) => BothValidated.c = BothValidated.js

(* ------------------------------------------------------------------ *)
(* C15                                                                 *)
(* ------------------------------------------------------------------ *)
\* the start/end rule and the palindrome rule with nothing else required
StartEndAndPalindrome ==
  [ZeroReqs EXCEPT !.req_start_upper_end_symbol = 1, !.req_palindrome = 1]

\* every generated record of round 5 has both rules on
RoundFiveHasBothRules ==
  \A x \in 0..MaxRand :
    /\ generate_requirements(5, x).reqs.req_start_upper_end_symbol = 1
    /\ generate_requirements(5, x).reqs.req_palindrome = 1
    /\ generateRequirements(5, x).reqs.req_start_upper_end_symbol = 1
    /\ generateRequirements(5, x).reqs.req_palindrome = 1

\* under the two rules alone neither validator accepts any password
NoPasswordMeetsBothRules ==
  \A p \in Passwords :
    /\ validate_password(p, StartEndAndPalindrome).ret = 0
    /\ validatePassword(p, StartEndAndPalindrome).ret = 0

\* C15: the records generated for round 5 carry both the start/end rule and
\* the palindrome rule; a verdict given against such a record is Invalid, as
\* it would be for any other password, none being Valid under the two
\* rules; and so in every run of either host the round counter never
\* exceeds 5.
C15_RoundFiveUnwinnable ==
  /\ RoundFiveHasBothRules
  /\ (Validated /\ reqs.req_start_upper_end_symbol = 1 /\ reqs.req_palindrome = 1)
       => (verdict.ret = 0 /\ NoPasswordMeetsBothRules)
  /\ round <= 5

\* whatever else a record requires, with both rules on every password of the
\* input set is rejected
BothRulesRejectEveryPassword ==
  (Validated /\ reqs.req_start_upper_end_symbol = 1 /\ reqs.req_palindrome = 1)
    => verdict.ret = 0

\* the terminal program won four rounds with AaAaAa2!2a2a! and lost the
\* fifth with it, for not being a palindrome
C15_Witness ==
  /\ fe = "c"
  /\ round = 5
  /\ Validated
  /\ ReasonOf(verdict) = "palindrome"
  /\ pc = "exit"

\* the page, likewise
C15_WitnessJs ==
  /\ fe = "js"
  /\ round = 5
  /\ Validated
  /\ ReasonOf(verdict) = "palindrome"
  /\ ~gameActive

(* ------------------------------------------------------------------ *)
(* SpecInput: one call of get_hidden_input, on a buffer of any size up *)
(* to MaxBuf, with any bytes arriving and the alarm pending            *)
(* ------------------------------------------------------------------ *)
\* 'a', 'A', the two backspaces, SOH, a byte above 127, newline, carriage
\* return, the end of the input (-1) and a failing read (-2)
InputBytes == {97, 65, 8, 127, 1, 195, 10, 13, -1, -2}

\* the next byte arrives on standard input
KeyTyped ==
  /\ fe = "c"
  /\ pc \in {"ghi_enter", "ghi_loop", "ghi_read", "ghi_after_read", "ghi_done"}
  /\ stdin = <<>>
  /\ \E b \in InputBytes : stdin' = <<b>>
  /\ UNCHANGED <<coreVars, time_limit, timer, pc, successful_round, timed_out,
                 input_result, max_len, buffer, ghi_i, ch, bytes_read, echo,
                 jsVars, calls, fired>>

\* the caller has set the alarm and calls get_hidden_input(buffer, max_len);
\* the array holds whatever was there, the terminal echoes or does not
InitInput ==
  /\ fe = "c"
  /\ password = <<>>
  /\ reqs = ZeroReqs
  /\ verdict = NoVerdict
  /\ round = 1
  /\ rnd = 0
  /\ gen = NoGen
  /\ time_limit = INITIAL_TIME
  /\ timer = TRUE
  /\ pc = "ghi_enter"
  /\ successful_round = 1
  /\ timed_out = 0
  /\ input_result = 0
  /\ max_len \in 0..MaxBuf
  /\ buffer \in [1..max_len -> {0, 97}]
  /\ ghi_i = 0
  /\ ch = 0
  /\ bytes_read = 0
  /\ echo \in {0, 1}
  /\ stdin = <<>>
  /\ JsIdle
  /\ calls = 0
  /\ fired = FALSE

NextInput ==
  \/ KeyTyped \/ GHI_Enter \/ GHI_Loop \/ GHI_Read \/ GHI_AfterRead \/ GHI_Done
  \/ handle_timeout

SpecInput == InitInput /\ [][NextInput]_vars

(* ------------------------------------------------------------------ *)
(* C16                                                                 *)
(* ------------------------------------------------------------------ *)
\* get_hidden_input has passed its argument test and is at work or has returned
PastArgumentTest == max_len >= 1 /\ pc # "ghi_enter"

\* C16: in get_hidden_input with max_len >= 1, whatever bytes arrive, the
\* write index i stays within 0..max_len - 1 (so a backspace at i = 0 leaves
\* it at 0), a character is written only below the last cell and the NUL at
\* index i, the array keeps its max_len cells, and the string in it is
\* NUL-terminated with at most max_len - 1 characters: i of them when the
\* function returns a count.
C16_IndexWithinBuffer ==
  PastArgumentTest =>
    /\ 0 <= ghi_i /\ ghi_i <= max_len - 1
    /\ pc \in {"ghi_read", "ghi_after_read"} => ghi_i < max_len - 1
    /\ Len(buffer) = max_len
    /\ \E j \in 1..max_len : buffer[j] = 0
    /\ Len(CString(buffer)) <= max_len - 1
    /\ (pc = "cancel" /\ input_result >= 0) => Len(CString(buffer)) = ghi_i

\* the largest buffer filled to its last cell but one: the loop ended by its
\* test after a character, not by Enter
C16_Witness ==
  /\ max_len = MaxBuf
  /\ pc = "cancel"
  /\ input_result = max_len - 1
  /\ bytes_read = 1
  /\ ch = 97
  /\ timed_out = 0

\* a backspace read with nothing in the buffer
C16_WitnessBackspace ==
  /\ PastArgumentTest
  /\ pc = "ghi_after_read"
  /\ timed_out = 0
  /\ bytes_read = 1
  /\ ch \in {8, 127}
  /\ ghi_i = 0

(* ------------------------------------------------------------------ *)
(* C18                                                                 *)
(* ------------------------------------------------------------------ *)
\* C18: get_hidden_input entered with valid arguments turns the terminal's
\* echo off, and whichever way it returns (Enter, end of input, buffer
\* full, timeout, read error) the echo is on again when it has returned.
C18_EchoRestoredOnReturn ==
  max_len >= 1 =>
    /\ pc \in {"ghi_loop", "ghi_read", "ghi_after_read", "ghi_done"} => echo = 0
    /\ pc = "cancel" => echo = 1

\* returned -1 after a failing read, with characters already captured, on a
\* terminal whose echo was on before the call
C18_Witness ==
  /\ max_len >= 1
  /\ pc = "cancel"
  /\ input_result = -1
  /\ bytes_read = -1
  /\ timed_out = 0
  /\ ghi_i > 0
  /\ echo = 1

\* returned 0 after the timeout interrupted the read, with characters captured
C18_WitnessTimeout ==
  /\ max_len >= 1
  /\ pc = "cancel"
  /\ timed_out = 1
  /\ input_result = 0
  /\ ghi_i > 0
  /\ echo = 1

\* returned at the end of the input
C18_WitnessEndOfInput ==
  /\ max_len >= 1
  /\ pc = "cancel"
  /\ timed_out = 0
  /\ bytes_read = 0
  /\ input_result = ghi_i
  /\ echo = 1

(* ------------------------------------------------------------------ *)
(* C17                                                                 *)
(* ------------------------------------------------------------------ *)
\* a string the terminal program may hand to the validator
NonEmptyPrintable(s) ==
  /\ s # <<>>
  /\ Len(s) <= MAX_PASSWORD_LEN - 1
  /\ \A j \in DOMAIN s : isprint(s[j])

\* get_hidden_input returned 0 without a timeout and main has dealt with it
EmptyLineTaken ==
  /\ Generated
  /\ pc \in {"loop", "over", "exit"}
  /\ timed_out = 0
  /\ input_result = 0

\* C17: in the terminal program an empty line without a timeout ends the
\* game as an input error with the validator not called, and the validator
\* is called only without a timeout, on a count above 0, with a non-empty
\* string of at most MAX_PASSWORD_LEN - 1 printable characters.
C17_EmptyLineIsInputError ==
  fe = "c" =>
    /\ EmptyLineTaken => (successful_round = 0 /\ calls = 0 /\ verdict = NoVerdict)
    /\ pc = "validate" =>
         (timed_out = 0 /\ input_result > 0 /\ NonEmptyPrintable(CString(buffer)))
    /\ calls >= 1 => NonEmptyPrintable(password)

\* the player pressed Enter alone in the third round and the game is over
C17_Witness ==
  /\ fe = "c"
  /\ round = 3
  /\ EmptyLineTaken
  /\ bytes_read = 1
  /\ ch = 10
  /\ pc = "exit"

\* the validator was called with what was left after backspaces and a
\* non-printable byte
C17_WitnessEdited ==
  /\ fe = "c"
  /\ calls = 1
  /\ password = <<65>>
  /\ ch = 13

====
